---- MODULE Spec2Model ----
(***************************************************************************)
(* State-machine model of haloc::LoopClosure (src/src/lc.cpp) as driven by *)
(* a caller such as Mono::processData (src/examples/mono.cpp).             *)
(*                                                                         *)
(* Program state: params_, img_, hash_, hash_table_, img_idx_ and the      *)
(* files of the working directory (store).  The caller's result variables  *)
(* (ret, lc_img_idx, lc_name, trans) and the locals of the last            *)
(* getLoopClosure call (matchings, log of compute calls) are kept so that  *)
(* properties of a call can be stated on the state it leaves behind.       *)
(***************************************************************************)
EXTENDS Integers, Sequences, FiniteSets, TLC

VARIABLES
    params_,      \* LoopClosure::params_ (the fields the code reads)
    camera,       \* which setNode overload the caller uses in this run
    session,      \* lifecycle position: "constructed", "active", "finalized"
    img_,         \* LoopClosure::img_, the image set by the last setNode
    store,        \* files <work_dir>/<idx>.yml: index -> record
    hash_,        \* LoopClosure::hash_ (haloc::Hash)
    hash_table_,  \* LoopClosure::hash_table_: sequence of (first, second)
    img_idx_,     \* LoopClosure::img_idx_
    proto,        \* history: position in the caller's loop setNode; getLoopClosure
    queries,      \* history: getLoopClosure calls since init (2 stands for 2 or more)
    last_op,      \* history: name of the last operation executed
    ret,          \* value returned by the last getLoopClosure
    lc_img_idx,   \* caller's out argument lc_img_idx after the last call
    lc_name,      \* caller's out argument lc_name after the last call
    trans,        \* caller's out argument trans after the last call
    matchings,    \* local `matchings` of the last getLoopClosure, after the sort
    log,          \* compute() calls made by the last getLoopClosure, in order
    cmp,          \* the last stand-alone compute() call (SpecCompute only)
    prod          \* two callers sharing the object (SpecProducers only)

vars ==
    << params_, camera, session, img_, store, hash_, hash_table_, img_idx_,
       proto, queries, last_op, ret, lc_img_idx, lc_name, trans, matchings, log,
       cmp, prod >>

(***************************************************************************)
(* Bounds of the model.                                                    *)
(***************************************************************************)
\* setNode calls in a session.
MaxImages == 5
\* setNode calls in a session run with min_neighbour = 0, where every table
\* entry is a candidate.
MaxImagesNoGap == 3

ImageBound(prm) ==
    IF prm.min_neighbour = 0 THEN MaxImagesNoGap ELSE MaxImages

\* Entries of the table: as many as the images of a session give it when
\* every setNode is followed by one getLoopClosure.
TableBound(prm) == ImageBound(prm) - 1

(***************************************************************************)
(* Values.                                                                 *)
(***************************************************************************)
\* tf::Transform::setIdentity() (lc.cpp:181); a pose is a positive number.
Identity == 0

\* The empty string; a name is a sequence of characters.
EmptyName == << >>

\* What an out argument holds when the caller never initialised it
\* (mono.cpp:108 `int img_lc;`, lc.cpp:141 `tf::Transform trans;`).
GarbageIdx == 77
GarbageName == << 77 >>
GarbageTrans == 77

\* Descriptor sets of the images fed to setNode.  h is what the hash
\* projection sees of a descriptor set, g what descriptor matching and the
\* geometric estimators see of it.
Descs == {[h |-> 0, g |-> 0], [h |-> 1, g |-> 0], [h |-> 0, g |-> 1]}

\* The image object before any setNode.
NoImage == [set |-> FALSE, desc |-> [h |-> 0, g |-> 0], threed |-> FALSE]

\* Parameter values the runs are drawn from.
MinNeighbourSet == {-1, 0, 1, 3, 4}
NCandidatesSet == {-1, 0, 1, 2}

\* Parameters of the runs of Spec.  The thresholds are fixed here: Toolkit
\* answers 2 matches and inliers or none.
ParamsSet ==
    [min_neighbour : MinNeighbourSet, n_candidates : NCandidatesSet,
     min_matches : {1}, min_inliers : {1}, validate : BOOLEAN]

\* The name the caller gives image number i.
NameOf(i) == << i >>

\* haloc::Utils::buildTransformation(rvec, tvec) for the pose estimated
\* against the record of file cur_file.
buildTransformation(cur_file) == cur_file + 1

EmptyStore == [i \in {} |-> 0]


(***************************************************************************)
(* haloc::Hash.  Only its calls are in lc.cpp; its state is whether the    *)
(* projection basis has been seeded.                                       *)
(***************************************************************************)
\* A Hash object as constructed.
Hash_constructed == [initialized |-> FALSE]

\* hash_.isInitialized()
Hash_isInitialized(h) == h.initialized

\* hash_.init(desc, true): seeds the basis.
Hash_init(h, desc) == [h EXCEPT !.initialized = TRUE]

\* hash_.setParams(hash_params) as called by LoopClosure::init: the session
\* reset discards the basis.
Hash_setParams(h) == [h EXCEPT !.initialized = FALSE]

\* hash_.getHash(desc)
Hash_getHash(desc) == desc.h

\* hash_.match(h1, h2): a non-negative dissimilarity, lower is more similar.
Hash_match(h1, h2) == IF h1 >= h2 THEN h1 - h2 ELSE h2 - h1

\* haloc::Utils::sortByMatching(a, b): the comparator given to std::sort.
sortByMatching(a, b) == a.second < b.second

(***************************************************************************)
(* The geometry toolkit (crossCheckThresholdMatching, findFundamentalMat,  *)
(* solvePnPRansac): for a pair of descriptor sets, the number of matches,  *)
(* the number of inliers of the robust estimator and whether the sum of    *)
(* the fundamental matrix reaches 1e-3.                                    *)
(***************************************************************************)
Toolkit(ref_desc, cur_desc) ==
    IF ref_desc.g = cur_desc.g
    THEN [matches |-> 2, inliers |-> 2, f_ok |-> TRUE]
    ELSE [matches |-> 0, inliers |-> 0, f_ok |-> FALSE]

(***************************************************************************)
(* The working directory.                                                  *)
(***************************************************************************)
\* fs::exists(work_dir + "/" + idx + ".yml")
FileExists(st, idx) == idx \in DOMAIN st

\* FileStorage::open(READ) and the four reads of compute().
ReadRecord(st, idx) ==
    IF FileExists(st, idx)
    THEN [exists |-> TRUE, name |-> st[idx].name, desc |-> st[idx].desc,
          threed |-> st[idx].threed]
    ELSE [exists |-> FALSE, name |-> EmptyName, desc |-> NoImage.desc,
          threed |-> FALSE]

\* The write replacing the directory's content by the one new file.
WriteRecord_truncates(st, idx, rec) == [i \in {idx} |-> rec]

\* FileStorage(WRITE) ... release() of setNode: creates or overwrites a file.
WriteRecord(st, idx, rec) ==
    [i \in (DOMAIN st) \cup {idx} |-> IF i = idx THEN rec ELSE st[i]]

(***************************************************************************)
(* LoopClosure::compute (lc.cpp:264-351).  rec is what the file holds, tk  *)
(* what the toolkit answers for the pair; lc_name0 and trans0 are the      *)
(* values of the reference arguments on entry.                             *)
(***************************************************************************)
\* `matches < params_.min_matches`, `inliers < params_.min_inliers`
TooFew_off_by_one(count, minimum) == count <= minimum

TooFew(count, minimum) == count < minimum

\* The sanity check left out: a file that does not exist is read as a
\* default record and verified like any other.
SanityCheckFails_never(rec) == FALSE

\* The sanity check of compute(): !fs::exists(cur_filename).
SanityCheckFails(rec) == ~rec.exists

compute(prm, rec, cur_file, tk, lc_name0, trans0) ==
    LET out == [ret |-> FALSE, found |-> rec.exists, lc_name |-> lc_name0,
                matches |-> 0, inliers |-> 0, trans |-> trans0]
        read == [out EXCEPT !.lc_name = rec.name, !.matches = tk.matches]
    IN  IF SanityCheckFails(rec) THEN out
        ELSE IF TooFew(tk.matches, prm.min_matches) THEN read
        ELSE IF ~rec.threed
        THEN \* mono
             IF ~tk.f_ok THEN read
             ELSE IF TooFew(tk.inliers, prm.min_inliers)
             THEN [read EXCEPT !.inliers = tk.inliers]
             ELSE [read EXCEPT !.inliers = tk.inliers, !.ret = TRUE]
        ELSE \* stereo
             IF TooFew(tk.inliers, prm.min_inliers)
             THEN [read EXCEPT !.inliers = tk.inliers]
             ELSE [read EXCEPT !.inliers = tk.inliers, !.ret = TRUE,
                               !.trans = buildTransformation(cur_file)]

\* compute(img_, work_dir + "/" + cur_file + ".yml", ...) as getLoopClosure
\* calls it, on the current image and the files of the working directory.
computeFile(cur_file, lc_name0, trans0) ==
    LET rec == ReadRecord(store, cur_file)
    IN  compute(params_, rec, cur_file, Toolkit(img_.desc, rec.desc),
                lc_name0, trans0)

(***************************************************************************)
(* LoopClosure::getLoopClosure (lc.cpp:150-254), piece by piece.           *)
(***************************************************************************)
\* The bootstrap branch never taken: the basis is never seeded and the first
\* query goes on to the table.
BootstrapNeeded_never(h) == FALSE

\* The test that opens getLoopClosure: !hash_.isInitialized().
BootstrapNeeded(h) == ~Hash_isInitialized(h)

\* lc.cpp:153-157: the bootstrap call seeds the basis and returns; the
\* table is what it was.
TableAfterBootstrap(tbl, idx, hash_val) == tbl

\* lc.cpp:161: hash_table_.push_back(make_pair(img_idx_-1, hash_val))
TableEntry_current_counter(idx, hash_val) == [first |-> idx, second |-> hash_val]

TableEntry(idx, hash_val) == [first |-> idx - 1, second |-> hash_val]

\* lc.cpp:164: `hash_table_.size() <= params_.min_neighbour` compares a
\* size_t with an int: the int is converted to size_t, so a negative
\* min_neighbour becomes a value above every table size.
NotEnoughNeighbours_strict(size, min_neighbour) ==
    IF min_neighbour < 0 THEN TRUE ELSE size < min_neighbour

NotEnoughNeighbours(size, min_neighbour) ==
    IF min_neighbour < 0 THEN TRUE ELSE size <= min_neighbour

\* The loop running one entry further where the table has one:
\* i <= size - min_neighbour.
HashMatchings_one_more(tbl, hash_val, min_neighbour) ==
    LET n == Len(tbl) - min_neighbour + 1
    IN  [i \in 1..(IF n > Len(tbl) THEN Len(tbl) ELSE n) |->
            [first |-> tbl[i].first, second |-> Hash_match(hash_val, tbl[i].second)]]

\* lc.cpp:168-175: one pair per table entry i < size - min_neighbour, in
\* table order (reached only with 0 <= min_neighbour < size).
HashMatchings(tbl, hash_val, min_neighbour) ==
    [i \in 1..(Len(tbl) - min_neighbour) |->
        [first |-> tbl[i].first, second |-> Hash_match(hash_val, tbl[i].second)]]

RemoveAt(s, i) == SubSeq(s, 1, i - 1) \o SubSeq(s, i + 1, Len(s))

\* The matchings handed on as the loop built them, the sort left out.
SortOutcomes_unsorted(s) == { s }

\* lc.cpp:178: std::sort(matchings, sortByMatching).  std::sort is not a
\* stable sort: every arrangement in which no element is preceded by one it
\* must come before is a possible result.
RECURSIVE SortOutcomes(_)
SortOutcomes(s) ==
    IF s = << >> THEN { << >> }
    ELSE LET firsts == { i \in 1..Len(s) :
                           \A j \in 1..Len(s) : ~sortByMatching(s[j], s[i]) }
         IN  UNION { { << s[i] >> \o t : t \in SortOutcomes(RemoveAt(s, i)) } :
                     i \in firsts }

\* lc.cpp:237-240: the candidate stands if either cross-check succeeded.
ValidationPasses_always(prev_valid, next_valid) == TRUE

ValidationPasses(prev_valid, next_valid) == prev_valid \/ next_valid

LogEntry(file, kind, rank, c) ==
    [file |-> file, kind |-> kind, rank |-> rank, found |-> c.found, ret |-> c.ret]

\* The loop test letting one more candidate in: best_m <= n_candidates.
LoopContinues_inclusive(best_m, n_candidates) == best_m <= n_candidates

\* lc.cpp:188: while (best_m < params_.n_candidates), a comparison of ints.
LoopContinues(best_m, n_candidates) == best_m < n_candidates

\* The cursor stepping over a candidate.
NextCursor_skips(best_m) == best_m + 2

\* lc.cpp:243: best_m++
NextCursor(best_m) == best_m + 1

\* The candidate left marked valid after both cross-checks failed.
MarkNonValid_forgotten(valid) == valid

\* lc.cpp:239-240: else valid = false
MarkNonValid(valid) == FALSE

\* The cross-check writing into the caller's reference arguments.
KeepPrimary_overwritten(primary, cross) == cross

\* lc.cpp:213-233: the cross-checks write their name and transform into the
\* locals tmp_name and trans_val; lc_name and trans keep what the primary
\* verification wrote.
KeepPrimary(primary, cross) == primary

\* lc.cpp:188-244: the while loop.  st holds the locals and reference
\* arguments the loop updates: best_m, valid, lc_name, trans, and the log.
RECURSIVE CandidateLoop(_, _)
CandidateLoop(m, st) ==
    IF ~LoopContinues(st.best_m, params_.n_candidates) THEN st
    ELSE IF st.best_m >= Len(m) THEN [st EXCEPT !.best_m = 0]
    ELSE
      LET cand == m[st.best_m + 1].first
          p == computeFile(cand, st.lc_name, st.trans)
          st1 == [st EXCEPT !.valid = p.ret, !.lc_name = p.lc_name,
                            !.trans = p.trans,
                            !.log = Append(@, LogEntry(cand, "primary", st.best_m, p))]
      IN  IF p.ret /\ ~params_.validate THEN st1
          ELSE IF p.ret /\ params_.validate
          THEN LET pv == computeFile(cand - 1, EmptyName, Identity)
                   lg1 == Append(st1.log, LogEntry(cand - 1, "prev", st.best_m, pv))
                   nx == computeFile(cand + 1, pv.lc_name, pv.trans)
                   lg2 == IF pv.ret THEN lg1
                          ELSE Append(lg1, LogEntry(cand + 1, "next", st.best_m, nx))
                   validate_valid == ValidationPasses(pv.ret, (~pv.ret) /\ nx.ret)
               IN  IF validate_valid
                   THEN LET cross == IF pv.ret THEN pv ELSE nx
                        IN  [st1 EXCEPT !.log = lg2,
                                        !.lc_name = KeepPrimary(@, cross.lc_name),
                                        !.trans = KeepPrimary(@, cross.trans)]
                   ELSE CandidateLoop(m, [st1 EXCEPT !.log = lg2,
                                                     !.valid = MarkNonValid(@),
                                                     !.best_m = NextCursor(@)])
          ELSE CandidateLoop(m, [st1 EXCEPT !.best_m = NextCursor(@)])

\* lc.cpp:181-253: from trans.setIdentity() to the return, for the sorted
\* matchings m.
CheckForLoopClosure(m) ==
    LET st == CandidateLoop(m, [best_m |-> 0, valid |-> FALSE, lc_name |-> EmptyName,
                                trans |-> Identity, log |-> << >>])
        found == st.valid /\ st.best_m < Len(m)
    IN  [ret |-> st.valid,
         lc_img_idx |-> IF found THEN m[st.best_m + 1].first ELSE -1,
         lc_name |-> IF found THEN st.lc_name ELSE EmptyName,
         trans |-> st.trans,
         log |-> st.log]

(***************************************************************************)
(* The caller.                                                             *)
(***************************************************************************)
\* The result variables of a caller that has not called getLoopClosure since
\* its last setNode (mono.cpp:108-109 declares them anew for every image).
NoResult ==
    /\ ret' = FALSE
    /\ lc_img_idx' = -1
    /\ lc_name' = EmptyName
    /\ trans' = Identity
    /\ matchings' = << >>
    /\ log' = << >>

\* The caller's loop (mono.cpp:95-145) alternates setNode and getLoopClosure:
\* proto is "ingested" after a setNode that was due, "step_done" after a
\* getLoopClosure that was due, and "broken" after the first call made out
\* of that order.  The model follows every run that keeps the order and
\* every first call that breaks it; a session with a broken order can only
\* be finalized or initialised again.
InProtocol == session = "active" /\ proto /= "broken"

\* No second caller: the runs of Spec and SpecCompute have one caller.
NoProducers ==
    [mode |-> "none", holder |-> 0, pc |-> << >>, left |-> << >>, mine |-> << >>,
     reg |-> << >>, hash_val |-> << >>, obs |-> {}, next_id |-> 0]

NoCompute ==
    [called |-> FALSE, exists |-> FALSE, threed |-> FALSE,
     tk |-> [matches |-> 0, inliers |-> 0, f_ok |-> FALSE],
     ret |-> FALSE, matches |-> 0, inliers |-> 0, trans |-> Identity]

(***************************************************************************)
(* State after the constructor and setParams (lc.cpp:33, 38-41; the caller *)
(* at mono.cpp:72-83).  The constructor leaves img_idx_ unset.             *)
(***************************************************************************)
Init ==
    /\ camera \in {"mono", "stereo"}
    /\ params_ \in ParamsSet
    /\ session = "constructed"
    /\ img_ = NoImage
    /\ store = EmptyStore
    /\ hash_ = Hash_constructed
    /\ hash_table_ = << >>
    /\ img_idx_ \in {0, GarbageIdx}
    /\ proto = "step_done"
    /\ queries = 0
    /\ last_op = "none"
    /\ ret = FALSE
    /\ lc_img_idx = -1
    /\ lc_name = EmptyName
    /\ trans = Identity
    /\ matchings = << >>
    /\ log = << >>
    /\ cmp = NoCompute
    /\ prod = NoProducers

(***************************************************************************)
(* LoopClosure::init (lc.cpp:54-84): a fresh working directory, the image  *)
(* and hash parameters, an empty table and a zero counter.                 *)
(***************************************************************************)
init_keeps_counter ==
    /\ session' = "active"
    /\ store' = EmptyStore
    /\ hash_' = Hash_setParams(hash_)
    /\ hash_table_' = << >>
    /\ img_idx_' = img_idx_
    /\ proto' = "step_done"
    /\ queries' = 0
    /\ last_op' = "init"
    /\ NoResult
    /\ UNCHANGED << params_, camera, img_, cmp, prod >>

init ==
    /\ session' = "active"
    /\ store' = EmptyStore
    /\ hash_' = Hash_setParams(hash_)
    /\ hash_table_' = << >>
    /\ img_idx_' = 0
    /\ proto' = "step_done"
    /\ queries' = 0
    /\ last_op' = "init"
    /\ NoResult
    /\ UNCHANGED << params_, camera, img_, cmp, prod >>

(***************************************************************************)
(* LoopClosure::finalize (lc.cpp:88-93): removes the working directory.    *)
(***************************************************************************)
finalize ==
    /\ session = "active"
    /\ session' = "finalized"
    /\ store' = EmptyStore
    /\ last_op' = "finalize"
    /\ UNCHANGED << params_, camera, img_, hash_, hash_table_, img_idx_, proto, queries,
                    ret, lc_img_idx, lc_name, trans, matchings, log, cmp, prod >>

(***************************************************************************)
(* LoopClosure::setNode, mono (lc.cpp:99-113) and stereo (lc.cpp:120-133). *)
(***************************************************************************)
setNodeAny(desc, threed) ==
    /\ session = "active"
    /\ img_idx_ < ImageBound(params_)
    /\ img_' = [set |-> TRUE, desc |-> desc, threed |-> threed]
    /\ store' = WriteRecord(store, img_idx_,
                            [name |-> NameOf(img_idx_), desc |-> desc, threed |-> threed])
    /\ img_idx_' = img_idx_ + 1
    /\ proto /= "broken"
    /\ proto' = IF proto = "step_done" THEN "ingested" ELSE "broken"
    /\ last_op' = "setNode"
    /\ NoResult
    /\ UNCHANGED << params_, camera, session, hash_, hash_table_, queries, cmp, prod >>

setNode ==
    /\ camera = "mono"
    /\ \E desc \in Descs : setNodeAny(desc, FALSE)

setNodeStereo ==
    /\ camera = "stereo"
    /\ \E desc \in Descs : setNodeAny(desc, TRUE)

(***************************************************************************)
(* LoopClosure::getLoopClosure (lc.cpp:150-254).                           *)
(***************************************************************************)
getLoopClosure ==
    /\ session = "active"
    /\ img_.set
    /\ Len(hash_table_) < TableBound(params_)
    /\ proto /= "broken"
    /\ proto' = IF proto = "ingested" THEN "step_done" ELSE "broken"
    /\ queries' = IF queries < 2 THEN queries + 1 ELSE 2
    /\ last_op' = "getLoopClosure"
    /\ UNCHANGED << params_, camera, session, img_, store, img_idx_, cmp, prod >>
    /\ LET \* The out arguments on entry: the caller has not set them.
           idx0 == GarbageIdx
           name0 == GarbageName
           trans0 == GarbageTrans
           hash_val == Hash_getHash(img_.desc)
           tbl == Append(hash_table_, TableEntry(img_idx_, hash_val))
       IN  IF BootstrapNeeded(hash_)
           THEN /\ hash_' = Hash_init(hash_, img_.desc)
                /\ hash_table_' = TableAfterBootstrap(hash_table_, img_idx_, hash_val)
                /\ ret' = FALSE
                /\ lc_img_idx' = idx0
                /\ lc_name' = name0
                /\ trans' = trans0
                /\ matchings' = << >>
                /\ log' = << >>
           ELSE /\ hash_' = hash_
                /\ hash_table_' = tbl
                /\ IF NotEnoughNeighbours(Len(tbl), params_.min_neighbour)
                   THEN /\ ret' = FALSE
                        /\ lc_img_idx' = idx0
                        /\ lc_name' = name0
                        /\ trans' = trans0
                        /\ matchings' = << >>
                        /\ log' = << >>
                   ELSE \E m \in SortOutcomes(HashMatchings(tbl, hash_val,
                                                           params_.min_neighbour)) :
                        \E r \in {CheckForLoopClosure(m)} :
                            /\ ret' = r.ret
                            /\ lc_img_idx' = r.lc_img_idx
                            /\ lc_name' = r.lc_name
                            /\ trans' = r.trans
                            /\ matchings' = m
                            /\ log' = r.log

Next ==
    \/ init
    \/ finalize
    \/ setNode
    \/ setNodeStereo
    \/ getLoopClosure

Spec == Init /\ [][Next]_vars

(***************************************************************************)
(* compute() on its own: one record, every answer the toolkit can give and *)
(* every pair of thresholds.                                               *)
(***************************************************************************)
\* Largest number of matches the toolkit reports, and largest threshold.
MaxCount == 3

TkOutputs ==
    { t \in [matches : 0..MaxCount, inliers : 0..MaxCount, f_ok : BOOLEAN] :
        t.inliers <= t.matches }

InitCompute ==
    /\ params_ \in [min_neighbour : {2}, n_candidates : {1},
                    min_matches : 0..MaxCount, min_inliers : 0..MaxCount,
                    validate : {FALSE}]
    /\ camera = "mono"
    /\ session = "active"
    /\ img_ = NoImage
    /\ store = EmptyStore
    /\ hash_ = Hash_constructed
    /\ hash_table_ = << >>
    /\ img_idx_ = 0
    /\ proto = "step_done"
    /\ queries = 0
    /\ last_op = "none"
    /\ ret = FALSE
    /\ lc_img_idx = -1
    /\ lc_name = EmptyName
    /\ trans = Identity
    /\ matchings = << >>
    /\ log = << >>
    /\ cmp = NoCompute
    /\ prod = NoProducers

\* One call compute(ref_image, "<work_dir>/0.yml", lc_name, matches, inliers,
\* trans) with lc_name empty and trans the identity on entry.
computeCall ==
    /\ \E exists \in BOOLEAN, threed \in BOOLEAN, tk \in TkOutputs :
         \E c \in { compute(params_,
                             [exists |-> exists, name |-> NameOf(0),
                              desc |-> NoImage.desc, threed |-> threed],
                             0, tk, EmptyName, Identity) } :
            cmp' = [called |-> TRUE, exists |-> exists, threed |-> threed, tk |-> tk,
                    ret |-> c.ret, matches |-> c.matches, inliers |-> c.inliers,
                    trans |-> c.trans]
    /\ UNCHANGED << params_, camera, session, img_, store, hash_, hash_table_,
                    img_idx_, proto, queries, last_op, ret, lc_img_idx, lc_name,
                    trans, matchings, log, prod >>

NextCompute == computeCall

SpecCompute == InitCompute /\ [][NextCompute]_vars

(***************************************************************************)
(* Properties.                                                             *)
(***************************************************************************)
\* The state is the one a getLoopClosure call has just left.
AfterQuery == last_op = "getLoopClosure"

\* Would compute() accept the current image against the record of file idx?
Accepts(idx) == computeFile(idx, EmptyName, Identity).ret

\* C1: whenever getLoopClosure returns true, the reported lc_img_idx is more
\* than min_neighbour older than the current observation's index img_idx_-1.
C1_TemporalGap ==
    (AfterQuery /\ ret) => (img_idx_ - 1) - lc_img_idx > params_.min_neighbour

\* Scenario A: init, then five mono images each followed by its query, with
\* min_neighbour = 3; the state after the query for image 4.
ScenarioA ==
    /\ InProtocol
    /\ AfterQuery
    /\ camera = "mono"
    /\ img_idx_ = 5
    /\ params_.min_neighbour = 3

BothCrossChecksFailed(i) ==
    /\ i + 2 <= Len(log)
    /\ log[i].kind = "primary" /\ log[i].ret
    /\ log[i + 1].kind = "prev" /\ ~log[i + 1].ret
    /\ log[i + 2].kind = "next" /\ ~log[i + 2].ret

\* Position i holds the primary verification of a candidate that passed it
\* and one of the two cross-checks, and the log ends with that cross-check.
AcceptedAt(i) ==
    /\ log[i].kind = "primary" /\ log[i].ret
    /\ \/ /\ Len(log) = i + 1
          /\ log[i + 1].kind = "prev" /\ log[i + 1].file = log[i].file - 1
          /\ log[i + 1].ret
       \/ /\ Len(log) = i + 2
          /\ log[i + 1].kind = "prev" /\ log[i + 1].file = log[i].file - 1
          /\ ~log[i + 1].ret
          /\ log[i + 2].kind = "next" /\ log[i + 2].file = log[i].file + 1
          /\ log[i + 2].ret

\* C3: with validate, the candidate returned passed primary verification and
\* the cross-check against its predecessor or, that failing, its successor;
\* a candidate that failed both cross-checks is not returned, and the loop
\* goes on to the next-ranked candidate.
C3_ValidatedOnly ==
    (AfterQuery /\ params_.validate) =>
        /\ ret => \E i \in 1..Len(log) :
                    /\ AcceptedAt(i)
                    /\ log[i].file = lc_img_idx
                    /\ matchings[log[i].rank + 1].first = lc_img_idx
        /\ \A i \in 1..Len(log) :
             BothCrossChecksFailed(i) =>
                /\ ~AcceptedAt(i)
                /\ Len(log) = i + 2 => ~ret
                /\ Len(log) > i + 2 =>
                      /\ log[i + 3].kind = "primary"
                      /\ log[i + 3].rank = log[i].rank + 1
                      /\ log[i + 3].file = matchings[log[i].rank + 2].first

\* C3 witness (Scenario D): the top candidate failed both cross-checks and
\* the next-ranked candidate is returned.
C3_Witness ==
    /\ AfterQuery /\ InProtocol /\ params_.validate /\ ret
    /\ BothCrossChecksFailed(1)
    /\ lc_img_idx = matchings[2].first
    /\ lc_img_idx # matchings[1].first

\* C4: whenever getLoopClosure returns false, the result it hands back has
\* index -1, the empty name and the identity transform.
C4_NoClosureResult ==
    (AfterQuery /\ ~ret) =>
        (lc_img_idx = -1 /\ lc_name = EmptyName /\ trans = Identity)

WentOnAfter(p, i) ==
    /\ Len(log) = i => (~ret /\ lc_img_idx = -1 /\ lc_name = EmptyName)
    /\ Len(log) > i =>
          /\ log[i + 1].kind = "primary"
          /\ log[i + 1].rank = log[p].rank + 1

C6_Bootstrap ==
    session # "constructed" =>
        /\ queries = 0 <=> ~Hash_isInitialized(hash_)
        /\ queries <= 1 => hash_table_ = << >>
        /\ (queries = 1 /\ AfterQuery) =>
              (~ret /\ matchings = << >> /\ log = << >>)
        /\ queries = 2 => Len(hash_table_) >= 1

\* C6 witness: the first image of a session has been ingested and queried.
C6_Witness ==
    /\ InProtocol /\ AfterQuery /\ queries = 1 /\ img_idx_ = 1
    /\ Hash_isInitialized(hash_) /\ hash_table_ = << >> /\ ~ret

\* No index occurs twice in the table.
NoDuplicateIndex ==
    \A i, j \in 1..Len(hash_table_) :
        hash_table_[i].first = hash_table_[j].first => i = j

\* Every image ingested after the first has an entry under its own index.
EveryImageHasEntry ==
    \A k \in 1..(img_idx_ - 1) :
        \E i \in 1..Len(hash_table_) : hash_table_[i].first = k

IsPrefix(s, t) == Len(s) <= Len(t) /\ s = SubSeq(t, 1, Len(s))

C8_TooFewNeighbours ==
    /\ (AfterQuery /\ queries = 2 /\ Len(hash_table_) <= params_.min_neighbour) =>
          /\ ~ret /\ matchings = << >> /\ log = << >>
          /\ lc_img_idx = GarbageIdx /\ lc_name = GarbageName /\ trans = GarbageTrans
    /\ (InProtocol /\ AfterQuery /\ img_idx_ = 5 /\ params_.min_neighbour = 4) =>
          (Len(hash_table_) = 4 /\ ~ret)

\* C8 witness (Scenario B): the query after the fifth image, min_neighbour 4.
C8_Witness ==
    /\ InProtocol /\ AfterQuery /\ img_idx_ = 5 /\ params_.min_neighbour = 4
    /\ Len(hash_table_) = 4 /\ ~ret /\ matchings = << >>

\* C9: compute() on an existing record rejects when the matches are fewer
\* than min_matches or the inliers fewer than min_inliers, and accepts when
\* both reach their minimum and, for a mono record, the fundamental matrix
\* is valid; a stereo record with min_inliers - 1 inliers is rejected, one
\* with min_inliers accepted.
C9_Thresholds ==
    (cmp.called /\ cmp.exists) =>
        /\ (cmp.tk.matches < params_.min_matches
              \/ cmp.tk.inliers < params_.min_inliers) => ~cmp.ret
        /\ ( /\ cmp.tk.matches >= params_.min_matches
             /\ cmp.tk.inliers >= params_.min_inliers
             /\ (~cmp.threed => cmp.tk.f_ok) ) => cmp.ret
        /\ (cmp.threed /\ cmp.tk.matches >= params_.min_matches) =>
              /\ cmp.tk.inliers = params_.min_inliers - 1 => ~cmp.ret
              /\ cmp.tk.inliers = params_.min_inliers => cmp.ret

\* C9 witness (Scenario C): a stereo record, enough matches, exactly
\* min_inliers - 1 inliers, rejected.
C9_Witness ==
    /\ cmp.called /\ cmp.exists /\ cmp.threed
    /\ cmp.tk.matches >= params_.min_matches
    /\ cmp.tk.inliers = params_.min_inliers - 1
    /\ ~cmp.ret

PrimaryLog == SelectSeq(log, LAMBDA e : e.kind = "primary")

\* C11: the ranked sequence a query hands to the verification loop has
\* non-decreasing scores, and the loop examines it from the front: the k-th
\* primary verification is of the candidate at position k.
C11_Sorted ==
    AfterQuery =>
        /\ \A i, j \in 1..Len(matchings) :
              i < j => matchings[i].second <= matchings[j].second
        /\ \A k \in 1..Len(PrimaryLog) :
              /\ PrimaryLog[k].rank = k - 1
              /\ k <= Len(matchings)
              /\ PrimaryLog[k].file = matchings[k].first

\* C11 witness: a query whose sort moved a later table entry with a lower
\* score in front of an earlier one, and whose loop examined both.
C11_Witness ==
    /\ AfterQuery /\ InProtocol /\ Len(matchings) >= 2
    /\ matchings[1].first > matchings[2].first
    /\ matchings[1].second < matchings[2].second
    /\ Len(PrimaryLog) = 2

\* C13: in a run where every setNode is followed by exactly one
\* getLoopClosure, the candidate list of a query holds exactly the table
\* entries more than min_neighbour steps older than the current image, each
\* once, and none that is min_neighbour or fewer steps older.
C13_CandidatesOlderThanGap ==
    (InProtocol /\ AfterQuery /\ queries = 2 /\ params_.min_neighbour >= 0) =>
        LET cur == img_idx_ - 1
            Older(idx) == cur - idx > params_.min_neighbour
        IN  /\ \A i \in 1..Len(hash_table_) :
                  Older(hash_table_[i].first) <=>
                      Cardinality({ k \in 1..Len(matchings) :
                                      matchings[k].first = hash_table_[i].first }) = 1
            /\ \A k \in 1..Len(matchings) : Older(matchings[k].first)

\* The candidate with index c passes primary verification against the
\* current image and, with validate on, one of its two cross-checks.
PassesAll(c) ==
    Accepts(c) /\ (params_.validate => (Accepts(c - 1) \/ Accepts(c + 1)))

\* C14: a query makes at most n_candidates primary verifications, on the
\* candidates at ranks 0, 1, 2, ... in that order; the candidate it returns
\* is the first in rank order that passes verification (and validation when
\* it is on), at a rank below n_candidates; when it returns no closure, no
\* candidate at a rank below n_candidates passes.
C14_BestFirstCapped ==
    AfterQuery =>
        /\ Len(PrimaryLog) <= (IF params_.n_candidates < 0 THEN 0
                               ELSE params_.n_candidates)
        /\ \A k \in 1..Len(PrimaryLog) :
              PrimaryLog[k].rank = k - 1 /\ PrimaryLog[k].file = matchings[k].first
        /\ ret =>
              \E k \in 1..Len(matchings) :
                  /\ k <= params_.n_candidates
                  /\ Len(PrimaryLog) = k
                  /\ lc_img_idx = matchings[k].first
                  /\ PassesAll(matchings[k].first)
                  /\ \A j \in 1..(k - 1) : ~PassesAll(matchings[j].first)
        /\ ~ret =>
              \A k \in 1..Len(matchings) :
                  k <= params_.n_candidates => ~PassesAll(matchings[k].first)

\* C14 witness: the best-ranked candidate was rejected and the second one
\* returned, while a third one was ranked.
C14_Witness ==
    /\ AfterQuery /\ InProtocol /\ ret
    /\ params_.n_candidates = 2 /\ Len(matchings) >= 3
    /\ Len(PrimaryLog) = 2
    /\ ~PassesAll(matchings[1].first)
    /\ lc_img_idx = matchings[2].first

\* The last query ranked candidates, fewer than n_candidates, and none of
\* them passes.
ShortListAllRejected ==
    /\ AfterQuery /\ matchings # << >>
    /\ Len(matchings) < params_.n_candidates
    /\ \A k \in 1..Len(matchings) : ~PassesAll(matchings[k].first)

\* C15: when the ranked list is shorter than n_candidates and every
\* candidate in it is rejected, the loop verifies each candidate once, reads
\* none past the end and the query returns no closure with index -1 and an
\* empty name: resetting the cursor to 0 does not report candidate 0.
C15_ShortListNoClosure ==
    ShortListAllRejected =>
        /\ ~ret /\ lc_img_idx = -1 /\ lc_name = EmptyName
        /\ Len(PrimaryLog) = Len(matchings)
        /\ \A i \in 1..Len(log) : log[i].rank < Len(matchings)

\* C15 witness: one ranked candidate, n_candidates = 2; the candidate passed
\* primary verification and failed both cross-checks before the cursor ran
\* off the end of the list.
C15_Witness ==
    /\ ShortListAllRejected /\ InProtocol
    /\ Len(matchings) = 1 /\ params_.n_candidates = 2
    /\ Accepts(matchings[1].first)
    /\ Len(log) = 3 /\ ~ret /\ lc_img_idx = -1

\* C16: of two ranked candidates with equal scores, the one with the smaller
\* index comes first (in a run that keeps the calling order the table holds
\* each index once, in increasing order).
C16_TiesByIndex ==
    (InProtocol /\ AfterQuery) =>
        \A i, j \in 1..Len(matchings) :
            (i < j /\ matchings[i].second = matchings[j].second) =>
                matchings[i].first < matchings[j].first

\* C17: the predecessor cross-check of a candidate with index c reads the
\* record of c - 1, or of 0 when c - 1 would be negative; no negative index
\* is looked up.
C17_PredecessorClamped ==
    AfterQuery =>
        \A i \in 2..Len(log) :
            log[i].kind = "prev" =>
                /\ log[i].file >= 0
                /\ log[i].file = (IF log[i - 1].file - 1 < 0 THEN 0
                                  ELSE log[i - 1].file - 1)

\* C18: a query leaves the counter and every record as they were and
\* changes the table only by appending the entry of the current image (the
\* bootstrap query appends nothing); an ingest writes the record of the new
\* index and no other, adds one to the counter and leaves the table, the
\* basis and every earlier record as they were.
C18_Frames ==
    [][ /\ last_op' = "getLoopClosure" =>
              /\ img_idx_' = img_idx_
              /\ store' = store
              /\ hash_table_' =
                    IF Hash_isInitialized(hash_)
                    THEN Append(hash_table_, [first |-> img_idx_ - 1,
                                              second |-> Hash_getHash(img_.desc)])
                    ELSE hash_table_
        /\ last_op' = "setNode" =>
              /\ img_idx_' = img_idx_ + 1
              /\ DOMAIN store' = (DOMAIN store) \cup {img_idx_}
              /\ store'[img_idx_].desc = img_'.desc
              /\ \A i \in (DOMAIN store) \ {img_idx_} : store'[i] = store[i]
              /\ hash_table_' = hash_table_
              /\ hash_' = hash_ ]_vars

\* C18 witness: a query that made verifier calls has returned, after three
\* ingests whose records are all in the store.
C18_Witness ==
    /\ AfterQuery /\ InProtocol /\ img_idx_ = 3
    /\ DOMAIN store = 0..2
    /\ Len(hash_table_) = 2 /\ Len(log) >= 2

IterationBound ==
    IF params_.n_candidates <= 0 THEN 0
    ELSE IF params_.n_candidates < Len(matchings) THEN params_.n_candidates
    ELSE Len(matchings)

\* The verifier calls of kind kd the last query made at rank rk.
CallsAt(rk, kd) == { i \in 1..Len(log) : log[i].rank = rk /\ log[i].kind = kd }

\* C20: the loop of a query makes at most min(n_candidates, number of ranked
\* candidates) iterations, each at the rank after that of the one before,
\* and in each iteration one primary verification, at most one predecessor
\* and at most one successor cross-check; with n_candidates <= 0 it makes no
\* iteration and the query returns no closure.
C20_BoundedLoop ==
    AfterQuery =>
        /\ Len(PrimaryLog) <= IterationBound
        /\ \A k \in 1..Len(PrimaryLog) : PrimaryLog[k].rank = k - 1
        /\ \A i \in 1..Len(log) : log[i].rank \in 0..(Len(PrimaryLog) - 1)
        /\ \A rk \in 0..(Len(PrimaryLog) - 1) :
              /\ Cardinality(CallsAt(rk, "primary")) = 1
              /\ Cardinality(CallsAt(rk, "prev")) <= 1
              /\ Cardinality(CallsAt(rk, "next")) <= 1
        /\ Len(log) <= 3 * IterationBound
        /\ params_.n_candidates <= 0 => (log = << >> /\ ~ret)

\* C20 witness: a query that made two iterations of three verifier calls
\* each, the most n_candidates = 2 allows.
C20_Witness ==
    /\ AfterQuery /\ InProtocol /\ params_.n_candidates = 2
    /\ Len(PrimaryLog) = 2 /\ Len(log) = 6

(***************************************************************************)
(* Two callers on one LoopClosure object, each running the caller's step   *)
(* setNode(img); getLoopClosure(...) (mono.cpp:105-109) a number of times. *)
(* The statements of setNode (lc.cpp:102, 106-111, 112) and of             *)
(* getLoopClosure (lc.cpp:153-157, 160, 161, 164-253) are the steps that    *)
(* interleave; img_idx_++ is a load and a store.  The object has no lock:  *)
(* in mode "locked" the callers hold a mutex of their own around the whole *)
(* step, in mode "free" they do not, and the accesses race.  The runs      *)
(* below are those in which every racing statement takes effect whole, in  *)
(* some order.                                                             *)
(***************************************************************************)
\* Steps each of the two callers runs.
MaxProducerSteps == 2

Producers == {1, 2}

\* The image with number id: every image has a hash of its own.
ImageOf(id) == [h |-> id, g |-> 0]

ProducerParams ==
    [min_neighbour |-> 1, n_candidates |-> 1, min_matches |-> 1, min_inliers |-> 1,
     validate |-> FALSE]

\* After init(), before the first step of either caller.
InitProducers ==
    /\ params_ = ProducerParams
    /\ camera = "mono"
    /\ session = "active"
    /\ img_ = NoImage
    /\ store = EmptyStore
    /\ hash_ = Hash_setParams(Hash_constructed)
    /\ hash_table_ = << >>
    /\ img_idx_ = 0
    /\ proto = "step_done"
    /\ queries = 0
    /\ last_op = "init"
    /\ ret = FALSE
    /\ lc_img_idx = -1
    /\ lc_name = EmptyName
    /\ trans = Identity
    /\ matchings = << >>
    /\ log = << >>
    /\ cmp = NoCompute
    /\ \E mode \in {"free", "locked"} :
          prod = [mode |-> mode, holder |-> 0,
                  pc |-> [q \in Producers |-> "idle"],
                  left |-> [q \in Producers |-> MaxProducerSteps],
                  mine |-> [q \in Producers |-> 0],
                  reg |-> [q \in Producers |-> 0],
                  hash_val |-> [q \in Producers |-> 0],
                  obs |-> {}, next_id |-> 0]

\* What a step of a caller leaves alone unless it says otherwise.
ProducerFrame == UNCHANGED << params_, camera, session, proto, queries, last_op, cmp >>

ResultsUnchanged == UNCHANGED << ret, lc_img_idx, lc_name, trans, matchings, log >>

\* The caller's step is over: one step fewer to run, the mutex released.
StepDone(p) ==
    [prod EXCEPT !.pc[p] = "idle", !.left[p] = @ - 1, !.holder = 0]

\* The caller starts a step, taking the mutex in mode "locked".
BeginStep(p) ==
    /\ prod.pc[p] = "idle" /\ prod.left[p] > 0
    /\ prod.mode = "locked" => prod.holder = 0
    /\ prod' = [prod EXCEPT !.pc[p] = "setMono",
                            !.holder = IF prod.mode = "locked" THEN p ELSE 0]
    /\ ProducerFrame /\ ResultsUnchanged
    /\ UNCHANGED << img_, store, hash_, hash_table_, img_idx_ >>

\* lc.cpp:102: img_.setMono(img), with the caller's next image.
SetMono(p) ==
    /\ prod.pc[p] = "setMono"
    /\ img_' = [set |-> TRUE, desc |-> ImageOf(prod.next_id), threed |-> FALSE]
    /\ prod' = [prod EXCEPT !.pc[p] = "write", !.mine[p] = prod.next_id,
                            !.next_id = @ + 1]
    /\ ProducerFrame /\ ResultsUnchanged
    /\ UNCHANGED << store, hash_, hash_table_, img_idx_ >>

\* lc.cpp:106-111: the file <img_idx_>.yml is written with img_.getDesc();
\* the caller's image has been given the index img_idx_.
WriteFile(p) ==
    /\ prod.pc[p] = "write"
    /\ store' = WriteRecord(store, img_idx_,
                            [name |-> NameOf(img_idx_), desc |-> img_.desc,
                             threed |-> FALSE])
    /\ prod' = [prod EXCEPT !.pc[p] = "load",
                            !.obs = @ \cup {[idx |-> img_idx_,
                                             h |-> Hash_getHash(ImageOf(prod.mine[p]))]}]
    /\ ProducerFrame /\ ResultsUnchanged
    /\ UNCHANGED << img_, hash_, hash_table_, img_idx_ >>

\* lc.cpp:112: img_idx_++, the load.
LoadCounter(p) ==
    /\ prod.pc[p] = "load"
    /\ prod' = [prod EXCEPT !.pc[p] = "store", !.reg[p] = img_idx_]
    /\ ProducerFrame /\ ResultsUnchanged
    /\ UNCHANGED << img_, store, hash_, hash_table_, img_idx_ >>

\* lc.cpp:112: img_idx_++, the store.
StoreCounter(p) ==
    /\ prod.pc[p] = "store"
    /\ img_idx_' = prod.reg[p] + 1
    /\ prod' = [prod EXCEPT !.pc[p] = "test"]
    /\ ProducerFrame /\ ResultsUnchanged
    /\ UNCHANGED << img_, store, hash_, hash_table_ >>

\* lc.cpp:153-157: the bootstrap test; the bootstrap call returns false.
TestBasis(p) ==
    /\ prod.pc[p] = "test"
    /\ IF BootstrapNeeded(hash_)
       THEN /\ hash_' = Hash_init(hash_, img_.desc)
            /\ hash_table_' = TableAfterBootstrap(hash_table_, img_idx_,
                                                  Hash_getHash(img_.desc))
            /\ prod' = StepDone(p)
       ELSE /\ prod' = [prod EXCEPT !.pc[p] = "hash"]
            /\ UNCHANGED << hash_, hash_table_ >>
    /\ ProducerFrame /\ ResultsUnchanged
    /\ UNCHANGED << img_, store, img_idx_ >>

\* lc.cpp:160: hash_val = hash_.getHash(img_.getDesc())
ComputeHash(p) ==
    /\ prod.pc[p] = "hash"
    /\ prod' = [prod EXCEPT !.pc[p] = "push", !.hash_val[p] = Hash_getHash(img_.desc)]
    /\ ProducerFrame /\ ResultsUnchanged
    /\ UNCHANGED << img_, store, hash_, hash_table_, img_idx_ >>

\* lc.cpp:161: hash_table_.push_back(make_pair(img_idx_-1, hash_val))
PushEntry(p) ==
    /\ prod.pc[p] = "push"
    /\ hash_table_' = Append(hash_table_, TableEntry(img_idx_, prod.hash_val[p]))
    /\ prod' = [prod EXCEPT !.pc[p] = "rank"]
    /\ ProducerFrame /\ ResultsUnchanged
    /\ UNCHANGED << img_, store, hash_, img_idx_ >>

\* lc.cpp:164-253: the size check, the matchings, the sort, the candidate
\* loop and the return.
RankAndVerify(p) ==
    /\ prod.pc[p] = "rank"
    /\ prod' = StepDone(p)
    /\ ProducerFrame
    /\ UNCHANGED << img_, store, hash_, hash_table_, img_idx_ >>
    /\ IF NotEnoughNeighbours(Len(hash_table_), params_.min_neighbour)
       THEN /\ ret' = FALSE
            /\ lc_img_idx' = GarbageIdx
            /\ lc_name' = GarbageName
            /\ trans' = GarbageTrans
            /\ matchings' = << >>
            /\ log' = << >>
       ELSE \E m \in SortOutcomes(HashMatchings(hash_table_, prod.hash_val[p],
                                               params_.min_neighbour)) :
            \E r \in {CheckForLoopClosure(m)} :
                /\ ret' = r.ret
                /\ lc_img_idx' = r.lc_img_idx
                /\ lc_name' = r.lc_name
                /\ trans' = r.trans
                /\ matchings' = m
                /\ log' = r.log

NextProducers ==
    \E p \in Producers :
        \/ BeginStep(p)
        \/ SetMono(p)
        \/ WriteFile(p)
        \/ LoadCounter(p)
        \/ StoreCounter(p)
        \/ TestBasis(p)
        \/ ComputeHash(p)
        \/ PushEntry(p)
        \/ RankAndVerify(p)

SpecProducers == InitProducers /\ [][NextProducers]_vars

\* Table entry i pairs the index and the hash of one observation.
EntryOfOneObservation(i) ==
    [idx |-> hash_table_[i].first, h |-> hash_table_[i].second] \in prod.obs

\* C12, the half for every run: when the callers wrap the whole step
\* setNode + getLoopClosure in a mutex, every table entry pairs the index and
\* the hash of the same observation and no index is recorded twice.  (The
\* other half, that without the mutex some interleaving records an entry
\* that does not, is the reachability of C12_Witness.)
C12_LockedEntriesPaired ==
    prod.mode = "locked" =>
        /\ \A i \in 1..Len(hash_table_) : EntryOfOneObservation(i)
        /\ NoDuplicateIndex

\* C12 witness: without the mutex, an interleaving has recorded an entry
\* whose index and hash belong to different observations, or one index
\* twice.
C12_Witness ==
    /\ prod.mode = "free"
    /\ \/ \E i \in 1..Len(hash_table_) : ~EntryOfOneObservation(i)
       \/ ~NoDuplicateIndex

====
